---- MODULE Spec2Model ----
(***************************************************************************)
(* State-machine model of the EROFS layer conversion pipeline of           *)
(* erofs-container-toolkit (pkg/converter/converter.go).                    *)
(*                                                                         *)
(* One process runs conversions one after the other against one content    *)
(* store.  A conversion is the closure returned by LayerConvertFunc; every *)
(* statement of it that talks to a collaborator (the store, the            *)
(* uncompress transform, the temp directory, mkfs.erofs) is one action, so  *)
(* that each of them can fail on its own and residue of a failed attempt   *)
(* (an ingest under the conversion reference) is visible to the next one.  *)
(* A return statement runs the deferred calls registered so far.           *)
(*                                                                         *)
(* Spec is that sequential pipeline.  SpecConc interleaves two conversions  *)
(* of different digests on the common store, SpecOnce runs concurrent      *)
(* callers of hasMkfsErofs through sync.Once, and SpecDiffer runs          *)
(* concurrent Apply / Compare requests through diffService.getDiffer       *)
(* (docs/native.md).  SpecCmd runs one invocation of the convert command   *)
(* (cmd/ctr-erofs/commands/convert.go) from its flags to its return.       *)
(*                                                                         *)
(* Byte strings are sequences of small naturals.  A digest is the tagged   *)
(* content it was computed from (an injective hash).  A pointer is a       *)
(* sequence of length 0 (nil) or 1.                                        *)
(***************************************************************************)
EXTENDS Integers, Sequences, FiniteSets, TLC

\* ------------------------------------------------------------------ bounds
\* number of conversions one process runs one after the other
MaxRuns == 2
\* number of goroutines calling hasMkfsErofs, or the diffService, at once
NumCallers == 2
\* number of calls each of them makes
MaxCalls == 2

\* ------------------------------------------------------- program constants
\* the block-size argument that follows a compressor
BlockSizeArg == "65536"
DefaultUUID == "fead9a88-fd26-578a-a655-9cbddcb89e76"
MediaTypeErofs == "application/vnd.erofs"
LabelUncompressed == "containerd.io/uncompressed"
LabelSource == "containerd.io/distribution.source.example.com"

MediaTypeConfig == "application/vnd.oci.image.config.v1+json"
MediaTypeLayer == "application/vnd.oci.image.layer.v1.tar"
MediaTypeLayerGzip == "application/vnd.oci.image.layer.v1.tar+gzip"

\* errors
ErrNil == "nil"
ErrNotImplemented == "not implemented"
ErrSameBlob == "unexpectedly got the same blob after compression"
ErrAlreadyExists == "already exists"

\* ------------------------------------------------------------ pure helpers
\* a nil pointer and a pointer to v
Nil == <<>>
Ptr(v) == <<v>>

Digest(bytes) == <<"sha256", bytes>>
\* digest.Digest is a string type: String() returns the digest itself
DigestString(d) == d

\* images.IsLayerType / uncompress.IsUncompressedType on the media types used
IsLayerType(mt) == mt \in {MediaTypeLayer, MediaTypeLayerGzip}
IsUncompressedType(mt) == mt = MediaTypeLayer

\* gzip framing is a leading 0 byte; a stream without it is passed through
\* as it is (compression.DecompressStream detects the format by magic)
GzipMagic == 0
Decompress(bytes) ==
    IF Len(bytes) > 0 /\ Head(bytes) = GzipMagic THEN Tail(bytes) ELSE bytes

Range(s) == {s[i] : i \in 1..Len(s)}

\* map[string]string as a set of <<key, value>> pairs with unique keys
SetLabel(l, k, v) == {p \in l : p[1] # k} \cup {<<k, v>>}
DeleteLabel(l, k) == {p \in l : p[1] # k}

\* ---------------------------------------------------------------- options
\* type options struct (zero value)
ZeroOptions == [uuid |-> "", compressors |-> "", extraMkfsOpts |-> ""]

\* the functional options; "fail" is a caller-defined Option returning an
\* error (Option is an exported func type)
WithCompressors(c) == [kind |-> "compressors", val |-> c]
WithUUID(u) == [kind |-> "uuid", val |-> u]
WithExtraMkfsOption(e) == [kind |-> "extra", val |-> e]
FailingOption == [kind |-> "fail", val |-> ""]

\* o(&opts): the options after the call and the error it returns
ApplyOption(o, os) ==
    CASE o.kind = "compressors" -> [o |-> [os EXCEPT !.compressors = o.val], err |-> ErrNil]
      [] o.kind = "uuid" -> [o |-> [os EXCEPT !.uuid = o.val], err |-> ErrNil]
      [] o.kind = "extra" -> [o |-> [os EXCEPT !.extraMkfsOpts = o.val], err |-> ErrNil]
      [] OTHER -> [o |-> os, err |-> "option error"]

\* for _, o := range opt { if err := o(&opts); err != nil { return nil, err } }
RECURSIVE ApplyOptions(_, _)
ApplyOptions(list, os) ==
    IF list = <<>> THEN [o |-> os, err |-> ErrNil]
    ELSE LET r == ApplyOption(Head(list), os)
         IN IF r.err # ErrNil THEN r ELSE ApplyOptions(Tail(list), r.o)

\* the volume-identifier part of the extra flags
UUIDFlags(os) ==
    IF os.uuid # "" THEN <<os.uuid>> ELSE <<"-U", DefaultUUID>>

\* the compressor part of the extra flags
CompressorFlags(os) ==
    IF os.compressors # "" THEN <<"-z", os.compressors>> \o <<"-C", BlockSizeArg>>
    ELSE <<>>

\* the opaque extra-flags part
ExtraMkfsFlags(os) ==
    IF os.extraMkfsOpts # "" THEN <<os.extraMkfsOpts>> ELSE <<>>

\* var extraopts []string and the three conditional appends
ExtraOpts(os) == UUIDFlags(os) \o CompressorFlags(os) \o ExtraMkfsFlags(os)

\* args of the mkfs.erofs subprocess
MkfsArgsPathFirst(mkfsExtraOpts, layerPath) ==
    <<"--tar=f", "--aufs", "--quiet">> \o <<layerPath>> \o mkfsExtraOpts

MkfsArgs(mkfsExtraOpts, layerPath) ==
    <<"--tar=f", "--aufs", "--quiet">> \o mkfsExtraOpts \o <<layerPath>>

\* what mkfs.erofs prints (stdout and stderr combined) when it fails
MkfsDiagnostics == {"", "mkfs.erofs: failed to parse tar"}

\* fmt.Errorf("mkfs.erofs %s failed: %s: %w", cmd.Args, out, err): cmd.Args
\* is the command name followed by args
MkfsFailure(args, out) ==
    [cmdArgs |-> <<"mkfs.erofs">> \o args, out |-> out]

\* the image mkfs.erofs writes for a tar stream: a black box, deterministic
\* in its input and its flags (a compressed image differs from a plain one)
MkfsOutput(tar, mkfsExtraOpts) ==
    <<(IF "-z" \in Range(mkfsExtraOpts) THEN 8 ELSE 7)>> \o tar

\* ref := fmt.Sprintf("convert-erofs-from-%s", desc.Digest)
ConvertRefShared(dgst) == <<"convert-erofs-from-", "">>

ConvertRef(dgst) == <<"convert-erofs-from-", dgst>>

\* ------------------------------------------------------------------ inputs
Descriptor(mt, bytes) ==
    [MediaType |-> mt, Digest |-> Digest(bytes), Size |-> Len(bytes),
     Annotations |-> "org.example.annotation"]

\* source blobs: a config, a plain tar layer, a gzip layer of the same tar,
\* and a blob announced as gzip whose content carries no gzip framing
ConfigBytes == <<9>>
TarBytes == <<1>>
GzipBytes == <<GzipMagic, 1>>
PlainBytes == <<2>>

SourceDescs ==
    {Descriptor(MediaTypeConfig, ConfigBytes),
     Descriptor(MediaTypeLayer, TarBytes),
     Descriptor(MediaTypeLayerGzip, GzipBytes),
     Descriptor(MediaTypeLayerGzip, PlainBytes)}

UUIDs == {"", "0f0e0d0c-0b0a-0908-0706-050403020100"}
Compressors == {"", "deflate,9"}
ExtraMkfsOpts == {"", "-Efoo"}

\* the opt ...Option lists a caller passes
OptionLists ==
    {<<WithUUID(u), WithCompressors(c), WithExtraMkfsOption(e)>> \o f :
        u \in UUIDs, c \in Compressors, e \in ExtraMkfsOpts,
        f \in {<<>>, <<FailingOption>>}}

\* the content store before the first conversion: digest -> content.Info
\* (Labels is a pointer: a nil map or a map)
InitialBlobs ==
    (Digest(ConfigBytes) :> [Labels |-> Nil]) @@
    (Digest(TarBytes) :> [Labels |-> Ptr({<<LabelSource, "repo">>,
                                          <<LabelUncompressed, Digest(TarBytes)>>})]) @@
    (Digest(GzipBytes) :> [Labels |-> Nil]) @@
    (Digest(PlainBytes) :> [Labels |-> Ptr({<<LabelSource, "repo">>})])

\* the references a conversion of a source descriptor writes under
Refs == {ConvertRef(d.Digest) : d \in SourceDescs}

\* content of a committed blob (the store is content-addressed)
BlobBytes(dgst) == dgst[2]

\* ------------------------------------------------------------------- state
VARIABLES
    hasMkfs,          \* var hasMkfs
    hasMkfsOnce,      \* var hasMkfsOnce: TRUE once Do has run its function
    blobs,            \* content store: committed blobs, digest -> Info
    ingests,          \* content store: ref -> pointer to the bytes of its ingest
    runs,             \* conversions started so far
    pc,               \* position of the running conversion
    opt,              \* the Option list LayerConvertFunc was given
    desc,             \* the descriptor argument
    opts,             \* var opts options
    uncompressedDesc, \* pointer to the descriptor read from
    labelz,           \* labelz
    sr,               \* bytes the section reader delivers
    res,              \* resources: reader, temp file, writer
    defers,           \* deferred calls, in registration order
    blobData,         \* content of the temp file
    extraopts,        \* extraopts
    mkfsArgs,         \* arguments mkfs.erofs was started with (<<>>: not run)
    wref,             \* reference of the writer w
    wdigest,          \* w.Digest()
    n,                \* n, the byte count io.Copy returned
    ret,              \* returned *ocispec.Descriptor
    err,              \* returned error
    trace,            \* collaborator calls of this conversion, in order
    hist,             \* what the collaborators answered, for the properties
    parked,           \* the locals of a second, concurrent conversion
    onceM,            \* hasMkfsOnce.m: the caller holding the mutex, or 0
    lookups,          \* results of the exec.LookPath calls made so far
    hcall,            \* concurrent callers of hasMkfsErofs
    svc,              \* the diffService: differ, loaded, loadM
    dcall,            \* concurrent callers of diffService.Apply / Compare
    cmd               \* one invocation of the convert command's Action

\* the locals of one conversion
locals == <<pc, opt, desc, opts, uncompressedDesc, labelz, sr, res, defers,
            blobData, extraopts, mkfsArgs, wref, wdigest, n, ret, err, trace,
            hist>>

\* the state of the conversion pipeline
conv == <<hasMkfs, hasMkfsOnce, blobs, ingests, runs, locals>>

\* the state only the concurrent specifications use
onceVars == <<onceM, lookups, hcall>>
differVars == <<svc, dcall>>
cmdVars == <<cmd>>

\* what a step of a conversion leaves alone
aux == <<parked, onceVars, differVars, cmdVars>>

vars == <<conv, aux>>

NoResources == [ra |-> "none", blobExists |-> FALSE, blobOpen |-> FALSE,
                wOpen |-> FALSE]

\* reported: what hasMkfsErofs answered this conversion ("none": not asked)
\* errs: the errors the steps of this conversion produced, in order
\* transform: what the uncompress transform returned ("none": not called)
\* resumed: pointer to the bytes found under the reference when it was opened
\* commit: pointer to the arguments of Commit and the bytes committed
\* cancelled: the caller has cancelled ctx
\* mkfsFailure: pointer to what the error of a failed builder run carries
NoHist == [reported |-> "none", errs |-> <<>>, transform |-> "none",
           resumed |-> Nil, commit |-> Nil, commitErr |-> ErrNil,
           readDesc |-> Nil, cancelled |-> FALSE, mkfsFailure |-> Nil]

LayerPath == "/tmp/erofs-layer-1"

\* one deferred call applied to the resources
RunDeferNoRemove(d, r) ==
    CASE d = "ra.Close" -> [r EXCEPT !.ra = "closed"]
      [] d = "blob.Close" -> [r EXCEPT !.blobOpen = FALSE]
      [] d = "w.Close" -> [r EXCEPT !.wOpen = FALSE]
      [] OTHER -> r

RunDefer(d, r) ==
    CASE d = "ra.Close" -> [r EXCEPT !.ra = "closed"]
      [] d = "os.Remove" -> [r EXCEPT !.blobExists = FALSE]
      [] d = "blob.Close" -> [r EXCEPT !.blobOpen = FALSE]
      [] d = "w.Close" -> [r EXCEPT !.wOpen = FALSE]
      [] OTHER -> r

\* the deferred calls run last-registered first
RECURSIVE RunDefers(_, _)
RunDefers(ds, r) ==
    IF ds = <<>> THEN r
    ELSE RunDefers(SubSeq(ds, 1, Len(ds) - 1), RunDefer(ds[Len(ds)], r))

\* the locals of a conversion that has not been called
NoConversion ==
    [pc |-> "idle", opt |-> <<>>, desc |-> Descriptor(MediaTypeConfig, ConfigBytes),
     opts |-> ZeroOptions, uncompressedDesc |-> Nil, labelz |-> {}, sr |-> <<>>,
     res |-> NoResources, defers |-> <<>>, blobData |-> <<>>, extraopts |-> <<>>,
     mkfsArgs |-> <<>>, wref |-> <<>>, wdigest |-> <<>>, n |-> 0, ret |-> Nil,
     err |-> ErrNil, trace |-> <<>>, hist |-> NoHist]

\* the goroutines of the concurrent specifications
Callers == 1..NumCallers

\* a caller that is in no call: position, calls made, last results, whether
\* it saw the initialisation done on the fast path or under the lock, and
\* how its last call ended
IdleCaller == [pc |-> "idle", calls |-> 0, ret |-> Nil, err |-> ErrNil,
               saw |-> "none", out |-> "none"]

\* d := &diffService{address: containerdAddress}; m is the holder of loadM
NewDiffService == [differ |-> Nil, loaded |-> 0, m |-> 0, connects |-> 0,
                   built |-> 0]

\* ------------------------------------------------ the convert command
ErrNoRefs == "src and target image need to be specified"
ErrConflict == "option --erofs conflicts with --uncompress"
ErrInvalidPlatform == "invalid platform"

\* the positional arguments: context.Args().Get(i) is "" when absent
SrcRefs == {"", "example.com/foo:orig"}
TargetRefs == {"", "example.com/foo:erofs"}

\* the --platform values of an invocation
PlatformLists == {<<>>, <<"linux/amd64">>, <<"linux/amd64", "linux//">>}

\* platforms.Parse(ps) returns an error for a malformed specifier
ParseFails(ps) == ps = "linux//"

\* the command lines: flags and arguments of one invocation
CommandLines ==
    [erofs : BOOLEAN, uncompress : BOOLEAN, oci : BOOLEAN,
     allPlatforms : BOOLEAN, platform : PlatformLists,
     erofsCompressors : Compressors, erofsMkfsOptions : ExtraMkfsOpts,
     srcRef : SrcRefs, targetRef : TargetRefs]

\* the values a converter.ConvertFunc variable takes
ErofsLayerConvertFunc(list) == [fn |-> "convert.LayerConvertFunc", opt |-> list]
UncompressLayerConvertFunc == [fn |-> "uncompress.LayerConvertFunc", opt |-> <<>>]

\* the converter.Opt values
WithPlatform(mc) == [kind |-> "WithPlatform", val |-> <<mc>>]
WithDockerToOCI(b) == [kind |-> "WithDockerToOCI", val |-> <<b>>]
WithLayerConvertFunc(f) == [kind |-> "WithLayerConvertFunc", val |-> <<f>>]

\* an Action that has not been called: its flags, its locals, the warning
\* logged, the calls of commands.NewClient and of client.WithLease, the
\* option lists converter.Convert was called with, whether the interrupt
\* handler cancelled ctx, the deferred calls registered and those that
\* ran, whether the digest was printed
\* and the error returned
NoCommand ==
    [pc |-> "idle",
     flags |-> [erofs |-> FALSE, uncompress |-> FALSE, oci |-> FALSE,
                allPlatforms |-> FALSE, platform |-> <<>>,
                erofsCompressors |-> "", erofsMkfsOptions |-> "",
                srcRef |-> "", targetRef |-> ""],
     convertOpts |-> <<>>, layerConvertFunc |-> Nil, warned |-> FALSE,
     clients |-> 0, leases |-> 0, converts |-> <<>>, cancelled |-> FALSE,
     defers |-> <<>>, deferred |-> <<>>, printed |-> FALSE, err |-> ErrNil]

Init ==
    /\ hasMkfs = FALSE
    /\ hasMkfsOnce = FALSE
    /\ blobs = InitialBlobs
    /\ ingests = [r \in Refs |-> Nil]
    /\ runs = 0
    /\ pc = "idle"
    /\ opt = <<>>
    /\ desc = Descriptor(MediaTypeConfig, ConfigBytes)
    /\ opts = ZeroOptions
    /\ uncompressedDesc = Nil
    /\ labelz = {}
    /\ sr = <<>>
    /\ res = NoResources
    /\ defers = <<>>
    /\ blobData = <<>>
    /\ extraopts = <<>>
    /\ mkfsArgs = <<>>
    /\ wref = <<>>
    /\ wdigest = <<>>
    /\ n = 0
    /\ ret = Nil
    /\ err = ErrNil
    /\ trace = <<>>
    /\ hist = NoHist
    /\ parked = NoConversion
    /\ onceM = 0
    /\ lookups = <<>>
    /\ hcall = [c \in Callers |-> IdleCaller]
    /\ svc = NewDiffService
    /\ dcall = [c \in Callers |-> IdleCaller]
    /\ cmd = NoCommand

\* ---------------------------------------------------------------- actions
\* return d, e: set the results and run the deferred calls on resources r
Return(d, e, r) ==
    /\ ret' = d
    /\ err' = e
    /\ res' = RunDefers(defers, r)
    /\ defers' = <<>>
    /\ pc' = "done"

\* a step failed with error e: return nil, e
Fail(e, op) ==
    /\ Return(Nil, e, res)
    /\ trace' = Append(trace, op)
    /\ hist' = [hist EXCEPT !.errs = Append(hist.errs, e)]

\* a caller invokes the conversion function on descriptor d with options ol
Start(d, ol) ==
    /\ pc \in {"idle", "done"}
    /\ runs < MaxRuns
    /\ runs' = runs + 1
    /\ desc' = d
    /\ opt' = ol
    /\ opts' = ZeroOptions
    /\ uncompressedDesc' = Nil
    /\ labelz' = {}
    /\ sr' = <<>>
    /\ res' = NoResources
    /\ defers' = <<>>
    /\ blobData' = <<>>
    /\ extraopts' = <<>>
    /\ mkfsArgs' = <<>>
    /\ wref' = <<>>
    /\ wdigest' = <<>>
    /\ n' = 0
    /\ ret' = Nil
    /\ err' = ErrNil
    /\ trace' = <<>>
    /\ hist' = NoHist
    /\ pc' = "options"
    /\ UNCHANGED <<hasMkfs, hasMkfsOnce, blobs, ingests>>
    /\ UNCHANGED aux

\* for _, o := range opt: apply the options, return the first error
ApplyOpts ==
    /\ pc = "options"
    /\ LET r == ApplyOptions(opt, ZeroOptions)
       IN IF r.err # ErrNil
          THEN /\ Return(Nil, r.err, res)
               /\ hist' = [hist EXCEPT !.errs = Append(hist.errs, r.err)]
               /\ opts' = r.o
          ELSE /\ opts' = r.o
               /\ pc' = "gate"
               /\ UNCHANGED <<ret, err, res, defers, hist>>
    /\ UNCHANGED <<hasMkfs, hasMkfsOnce, blobs, ingests, runs, opt, desc,
                   uncompressedDesc, labelz, sr, blobData, extraopts,
                   mkfsArgs, wref, wdigest, n, trace>>
    /\ UNCHANGED aux

\* the three tests that follow the options, in the order of the code: where
\* a conversion of media type mt continues when hasMkfsErofs() answered avail
GateOutcomeLayerFirst(avail, mt) ==
    IF ~IsLayerType(mt) THEN "passthrough"
    ELSE IF ~avail THEN "notimplemented"
    ELSE IF ~IsUncompressedType(mt) THEN "uncompress"
    ELSE "info"

GateOutcomeNoLayerTest(avail, mt) ==
    IF ~avail THEN "notimplemented"
    ELSE IF ~IsUncompressedType(mt) THEN "uncompress"
    ELSE "info"

GateOutcomeAlwaysUncompress(avail, mt) ==
    IF ~avail THEN "notimplemented"
    ELSE IF ~IsLayerType(mt) THEN "passthrough"
    ELSE "uncompress"

GateOutcome(avail, mt) ==
    IF ~avail THEN "notimplemented"
    ELSE IF ~IsLayerType(mt) THEN "passthrough"
    ELSE IF ~IsUncompressedType(mt) THEN "uncompress"
    ELSE "info"

\* hasMkfsErofs() (the first call looks mkfs.erofs up: found or not), then
\* the layer-type and uncompressed-type tests
Gate ==
    /\ pc = "gate"
    /\ \E found \in BOOLEAN :
        LET avail == IF hasMkfsOnce THEN hasMkfs ELSE found
            out == GateOutcome(avail, desc.MediaType)
        IN /\ hasMkfsOnce' = TRUE
           /\ hasMkfs' = avail
           /\ hist' = [hist EXCEPT
                         !.reported = IF avail THEN "available" ELSE "unavailable",
                         !.errs = IF out = "notimplemented"
                                  THEN Append(hist.errs, ErrNotImplemented)
                                  ELSE hist.errs]
           /\ CASE out = "notimplemented" ->
                     /\ Return(Nil, ErrNotImplemented, res)
                     /\ UNCHANGED uncompressedDesc
                [] out = "passthrough" ->
                     /\ Return(Nil, ErrNil, res)
                     /\ UNCHANGED uncompressedDesc
                [] OTHER ->
                     /\ pc' = out
                     /\ uncompressedDesc' = Ptr(desc)
                     /\ UNCHANGED <<ret, err, res, defers>>
    /\ UNCHANGED <<blobs, ingests, runs, opt, desc, opts, labelz, sr,
                   blobData, extraopts, mkfsArgs, wref, wdigest, n, trace>>
    /\ UNCHANGED aux

\* uncompress.LayerConvertFunc(ctx, cs, desc): an error, no descriptor, or
\* the descriptor of the decompressed blob, which it has committed with the
\* source's labels less the uncompressed-digest label
Uncompress ==
    /\ pc = "uncompress"
    /\ \E outcome \in {"error", "nil", "desc"} :
        CASE outcome = "error" ->
                /\ Fail("uncompress error", "Uncompress")
                /\ UNCHANGED <<blobs, uncompressedDesc>>
          [] outcome = "nil" ->
                /\ Return(Nil, ErrSameBlob, res)
                /\ trace' = Append(trace, "Uncompress")
                /\ hist' = [hist EXCEPT !.transform = "nil",
                                         !.errs = Append(hist.errs, ErrSameBlob)]
                /\ UNCHANGED <<blobs, uncompressedDesc>>
          [] outcome = "desc" ->
                LET plain == Decompress(BlobBytes(desc.Digest))
                    src == blobs[desc.Digest].Labels
                    lbl == IF src = Nil THEN Nil
                           ELSE Ptr(DeleteLabel(src[1], LabelUncompressed))
                    new == [desc EXCEPT !.MediaType = MediaTypeLayer,
                                        !.Digest = Digest(plain),
                                        !.Size = Len(plain)]
                IN /\ blobs' = IF Digest(plain) \in DOMAIN blobs THEN blobs
                               ELSE blobs @@ (Digest(plain) :> [Labels |-> lbl])
                   /\ uncompressedDesc' = Ptr(new)
                   /\ trace' = Append(trace, "Uncompress")
                   /\ hist' = [hist EXCEPT !.transform =
                                 IF new.Digest = desc.Digest THEN "same" ELSE "new"]
                   /\ pc' = "info"
                   /\ UNCHANGED <<ret, err, res, defers>>
    /\ UNCHANGED <<hasMkfs, hasMkfsOnce, ingests, runs, opt, desc, opts,
                   labelz, sr, blobData, extraopts, mkfsArgs, wref, wdigest, n>>
    /\ UNCHANGED aux

\* info, err := cs.Info(ctx, desc.Digest): err is never looked at, a failed
\* lookup leaves the zero Info; labelz is info.Labels or a fresh map
Info ==
    /\ pc = "info"
    /\ \E ok \in BOOLEAN :
        LET info == IF ok /\ desc.Digest \in DOMAIN blobs THEN blobs[desc.Digest]
                    ELSE [Labels |-> Nil]
        IN /\ labelz' = IF info.Labels = Nil THEN {} ELSE info.Labels[1]
           /\ hist' = IF ok THEN hist
                      ELSE [hist EXCEPT !.errs = Append(hist.errs, "info error")]
    /\ trace' = Append(trace, "Info")
    /\ pc' = "readerat"
    /\ UNCHANGED <<hasMkfs, hasMkfsOnce, blobs, ingests, runs, opt, desc, opts,
                   uncompressedDesc, sr, res, defers, blobData, extraopts,
                   mkfsArgs, wref, wdigest, n, ret, err>>
    /\ UNCHANGED aux

\* ra, err := cs.ReaderAt(ctx, *uncompressedDesc); defer ra.Close();
\* sr := io.NewSectionReader(ra, 0, uncompressedDesc.Size)
ReaderAtOriginal ==
    /\ pc = "readerat"
    /\ \E ok \in BOOLEAN :
        LET d == desc
        IN IF ok /\ d.Digest \in DOMAIN blobs
           THEN /\ res' = [res EXCEPT !.ra = "open"]
                /\ defers' = Append(defers, "ra.Close")
                /\ sr' = SubSeq(BlobBytes(d.Digest), 1, d.Size)
                /\ hist' = [hist EXCEPT !.readDesc = Ptr(d)]
                /\ trace' = Append(trace, "ReaderAt")
                /\ pc' = "tempfile"
                /\ UNCHANGED <<ret, err>>
           ELSE /\ Fail("readerat error", "ReaderAt")
                /\ UNCHANGED sr
    /\ UNCHANGED <<hasMkfs, hasMkfsOnce, blobs, ingests, runs, opt, desc, opts,
                   uncompressedDesc, labelz, blobData, extraopts, mkfsArgs,
                   wref, wdigest, n>>
    /\ UNCHANGED aux

ReaderAt ==
    /\ pc = "readerat"
    /\ \E ok \in BOOLEAN :
        LET d == uncompressedDesc[1]
        IN IF ok /\ d.Digest \in DOMAIN blobs
           THEN /\ res' = [res EXCEPT !.ra = "open"]
                /\ defers' = Append(defers, "ra.Close")
                /\ sr' = SubSeq(BlobBytes(d.Digest), 1, d.Size)
                /\ hist' = [hist EXCEPT !.readDesc = Ptr(d)]
                /\ trace' = Append(trace, "ReaderAt")
                /\ pc' = "tempfile"
                /\ UNCHANGED <<ret, err>>
           ELSE /\ Fail("readerat error", "ReaderAt")
                /\ UNCHANGED sr
    /\ UNCHANGED <<hasMkfs, hasMkfsOnce, blobs, ingests, runs, opt, desc, opts,
                   uncompressedDesc, labelz, blobData, extraopts, mkfsArgs,
                   wref, wdigest, n>>
    /\ UNCHANGED aux

\* blob, err := ioutil.TempFile("", "erofs-layer-"); defer os.Remove;
\* defer blob.Close; then the extra flags are assembled from opts
TempFile ==
    /\ pc = "tempfile"
    /\ \E ok \in BOOLEAN :
        IF ok
        THEN /\ res' = [res EXCEPT !.blobExists = TRUE, !.blobOpen = TRUE]
             /\ defers' = defers \o <<"os.Remove", "blob.Close">>
             /\ extraopts' = ExtraOpts(opts)
             /\ trace' = Append(trace, "TempFile")
             /\ pc' = "mkfs"
             /\ UNCHANGED <<ret, err, hist>>
        ELSE /\ Fail("tempfile error", "TempFile")
             /\ UNCHANGED extraopts
    /\ UNCHANGED <<hasMkfs, hasMkfsOnce, blobs, ingests, runs, opt, desc, opts,
                   uncompressedDesc, labelz, sr, blobData, mkfsArgs, wref,
                   wdigest, n>>
    /\ UNCHANGED aux

\* err = convertTarErofs(ctx, sr, blob.Name(), extraopts): mkfs.erofs exits
\* with zero status and the temp file holds the image, or it fails
\* (exec.CommandContext ends the subprocess when ctx is cancelled)
ConvertTarErofsErrorIgnored ==
    /\ pc = "mkfs"
    /\ mkfsArgs' = MkfsArgs(extraopts, LayerPath)
    /\ \E ok \in BOOLEAN, out \in MkfsDiagnostics :
        IF ok /\ ~hist.cancelled
        THEN /\ blobData' = MkfsOutput(sr, extraopts)
             /\ trace' = Append(trace, "Mkfs")
             /\ pc' = "openwriter"
             /\ UNCHANGED <<ret, err, res, defers, hist>>
        ELSE /\ pc' = "openwriter"
             /\ UNCHANGED <<ret, err, res, defers>>
             /\ trace' = Append(trace, "Mkfs")
             /\ hist' = [hist EXCEPT
                           !.errs = Append(hist.errs, "mkfs.erofs failed"),
                           !.mkfsFailure = Ptr(MkfsFailure(mkfsArgs', out))]
             /\ UNCHANGED blobData
    /\ UNCHANGED <<hasMkfs, hasMkfsOnce, blobs, ingests, runs, opt, desc, opts,
                   uncompressedDesc, labelz, sr, extraopts, wref, wdigest, n>>
    /\ UNCHANGED aux

ConvertTarErofs ==
    /\ pc = "mkfs"
    /\ mkfsArgs' = MkfsArgs(extraopts, LayerPath)
    /\ \E ok \in BOOLEAN, out \in MkfsDiagnostics :
        IF ok /\ ~hist.cancelled
        THEN /\ blobData' = MkfsOutput(sr, extraopts)
             /\ trace' = Append(trace, "Mkfs")
             /\ pc' = "openwriter"
             /\ UNCHANGED <<ret, err, res, defers, hist>>
        ELSE /\ Return(Nil, "mkfs.erofs failed", res)
             /\ trace' = Append(trace, "Mkfs")
             /\ hist' = [hist EXCEPT
                           !.errs = Append(hist.errs, "mkfs.erofs failed"),
                           !.mkfsFailure = Ptr(MkfsFailure(mkfsArgs', out))]
             /\ UNCHANGED blobData
    /\ UNCHANGED <<hasMkfs, hasMkfsOnce, blobs, ingests, runs, opt, desc, opts,
                   uncompressedDesc, labelz, sr, extraopts, wref, wdigest, n>>
    /\ UNCHANGED aux

\* w, err := content.OpenWriter(ctx, cs, content.WithRef(ref)); defer
\* w.Close(): the ingest under ref is resumed where an earlier attempt left
\* it, or created empty
OpenWriter ==
    /\ pc = "openwriter"
    /\ \E ok \in BOOLEAN :
        LET ref == ConvertRef(desc.Digest)
        IN IF ok
           THEN /\ wref' = ref
                /\ ingests' = IF ingests[ref] = Nil
                              THEN [ingests EXCEPT ![ref] = Ptr(<<>>)]
                              ELSE ingests
                /\ hist' = [hist EXCEPT !.resumed =
                              IF ingests[ref] = Nil THEN Ptr(<<>>) ELSE ingests[ref]]
                /\ res' = [res EXCEPT !.wOpen = TRUE]
                /\ defers' = Append(defers, "w.Close")
                /\ trace' = Append(trace, "OpenWriter")
                /\ pc' = "truncate"
                /\ UNCHANGED <<ret, err>>
           ELSE /\ Fail("openwriter error", "OpenWriter")
                /\ UNCHANGED <<wref, ingests>>
    /\ UNCHANGED <<hasMkfs, hasMkfsOnce, blobs, runs, opt, desc, opts,
                   uncompressedDesc, labelz, sr, blobData, extraopts,
                   mkfsArgs, wdigest, n>>
    /\ UNCHANGED aux

\* the ingest after w.Truncate(0)
TruncatedNoReset(bytes) == bytes

Truncated(bytes) == <<>>

\* if err := w.Truncate(0)
Truncate ==
    /\ pc = "truncate"
    /\ \E ok \in BOOLEAN :
        IF ok
        THEN /\ ingests' = [ingests EXCEPT ![wref] = Ptr(Truncated(ingests[wref][1]))]
             /\ trace' = Append(trace, "Truncate")
             /\ pc' = "copy"
             /\ UNCHANGED <<ret, err, res, defers, hist>>
        ELSE /\ Fail("truncate error", "Truncate")
             /\ UNCHANGED ingests
    /\ UNCHANGED <<hasMkfs, hasMkfsOnce, blobs, runs, opt, desc, opts,
                   uncompressedDesc, labelz, sr, blobData, extraopts,
                   mkfsArgs, wref, wdigest, n>>
    /\ UNCHANGED aux

\* n, err := io.Copy(w, blob): the first k bytes of the temp file are
\* appended to the ingest; the copy fails unless it reached the end
CopyShortWrite ==
    /\ pc = "copy"
    /\ \E k \in 0..Len(blobData) :
        /\ ingests' = [ingests EXCEPT ![wref] =
                          Ptr(ingests[wref][1] \o SubSeq(blobData, 1, k))]
        /\ IF k = Len(blobData) \/ k > 0
           THEN /\ n' = k
                /\ trace' = Append(trace, "Copy")
                /\ pc' = "blobclose"
                /\ UNCHANGED <<ret, err, res, defers, hist>>
           ELSE /\ Fail("copy error", "Copy")
                /\ UNCHANGED n
    /\ UNCHANGED <<hasMkfs, hasMkfsOnce, blobs, runs, opt, desc, opts,
                   uncompressedDesc, labelz, sr, blobData, extraopts,
                   mkfsArgs, wref, wdigest>>
    /\ UNCHANGED aux

Copy ==
    /\ pc = "copy"
    /\ \E k \in 0..Len(blobData) :
        /\ ingests' = [ingests EXCEPT ![wref] =
                          Ptr(ingests[wref][1] \o SubSeq(blobData, 1, k))]
        /\ IF k = Len(blobData)
           THEN /\ n' = k
                /\ trace' = Append(trace, "Copy")
                /\ pc' = "blobclose"
                /\ UNCHANGED <<ret, err, res, defers, hist>>
           ELSE /\ Fail("copy error", "Copy")
                /\ UNCHANGED n
    /\ UNCHANGED <<hasMkfs, hasMkfsOnce, blobs, runs, opt, desc, opts,
                   uncompressedDesc, labelz, sr, blobData, extraopts,
                   mkfsArgs, wref, wdigest>>
    /\ UNCHANGED aux

\* if err := blob.Close()
BlobClose ==
    /\ pc = "blobclose"
    /\ \E ok \in BOOLEAN :
        IF ok
        THEN /\ res' = [res EXCEPT !.blobOpen = FALSE]
             /\ trace' = Append(trace, "BlobClose")
             /\ pc' = "commit"
             /\ UNCHANGED <<ret, err, defers, hist>>
        ELSE Fail("blob close error", "BlobClose")
    /\ UNCHANGED <<hasMkfs, hasMkfsOnce, blobs, ingests, runs, opt, desc, opts,
                   uncompressedDesc, labelz, sr, blobData, extraopts,
                   mkfsArgs, wref, wdigest, n>>
    /\ UNCHANGED aux

\* err != nil && !errdefs.IsAlreadyExists(err)
CommitFatalStrict(e) == e # ErrNil

CommitFatal(e) == e # ErrNil /\ e # ErrAlreadyExists

\* labelz[labels.LabelUncompressed] = w.Digest().String()
UpdatedLabels(l, dgst) == SetLabel(l, LabelUncompressed, DigestString(dgst))

\* the store's answer to Commit(size, "") of an ingest holding bytes: the
\* size is verified when it is given (> 0), and a blob already stored under
\* the digest is reported as already existing
CommitOutcome(size, bytes, stored) ==
    IF size > 0 /\ size # Len(bytes) THEN "failed precondition"
    ELSE IF Digest(bytes) \in stored THEN ErrAlreadyExists
    ELSE ErrNil

\* the uncompressed-digest label is set to w.Digest(), then
\* w.Commit(ctx, n, "", content.WithLabels(labelz)); already-exists is
\* not an error
Commit ==
    /\ pc = "commit"
    /\ LET bytes == ingests[wref][1]
           dgst == Digest(bytes)
           lbl == UpdatedLabels(labelz, dgst)
       IN /\ labelz' = lbl
          /\ wdigest' = dgst
          /\ \E e \in {"commit error", CommitOutcome(n, bytes, DOMAIN blobs)} :
              /\ hist' = [hist EXCEPT
                            !.commit = Ptr([size |-> n, labels |-> lbl, bytes |-> bytes]),
                            !.commitErr = e,
                            !.errs = IF e = ErrNil THEN hist.errs
                                     ELSE Append(hist.errs, e)]
              /\ blobs' = IF e = ErrNil THEN blobs @@ (dgst :> [Labels |-> Ptr(lbl)])
                          ELSE blobs
              /\ ingests' = IF e \in {ErrNil, ErrAlreadyExists}
                            THEN [ingests EXCEPT ![wref] = Nil]
                            ELSE ingests
              /\ IF CommitFatal(e)
                 THEN Return(Nil, e, res)
                 ELSE /\ pc' = "wclose"
                      /\ UNCHANGED <<ret, err, res, defers>>
    /\ trace' = Append(trace, "Commit")
    /\ UNCHANGED <<hasMkfs, hasMkfsOnce, runs, opt, desc, opts,
                   uncompressedDesc, sr, blobData, extraopts, mkfsArgs, wref, n>>
    /\ UNCHANGED aux

\* newDesc := desc with the media type, digest and size replaced
NewDescFresh(d, dgst, size) ==
    [MediaType |-> MediaTypeErofs, Digest |-> dgst, Size |-> size,
     Annotations |-> ""]

NewDesc(d, dgst, size) ==
    [d EXCEPT !.MediaType = MediaTypeErofs, !.Digest = dgst, !.Size = size]

\* if err := w.Close(), then return &newDesc, nil
WriterClose ==
    /\ pc = "wclose"
    /\ \E ok \in BOOLEAN :
        IF ok
        THEN /\ Return(Ptr(NewDesc(desc, wdigest, n)), ErrNil,
                       [res EXCEPT !.wOpen = FALSE])
             /\ trace' = Append(trace, "Close")
             /\ UNCHANGED hist
        ELSE Fail("close error", "Close")
    /\ UNCHANGED <<hasMkfs, hasMkfsOnce, blobs, ingests, runs, opt, desc, opts,
                   uncompressedDesc, labelz, sr, blobData, extraopts,
                   mkfsArgs, wref, wdigest, n>>
    /\ UNCHANGED aux

\* the caller cancels ctx while the conversion runs
Cancel ==
    /\ pc \notin {"idle", "done"}
    /\ ~hist.cancelled
    /\ hist' = [hist EXCEPT !.cancelled = TRUE]
    /\ UNCHANGED <<hasMkfs, hasMkfsOnce, blobs, ingests, runs, pc, opt, desc,
                   opts, uncompressedDesc, labelz, sr, res, defers, blobData,
                   extraopts, mkfsArgs, wref, wdigest, n, ret, err, trace>>
    /\ UNCHANGED aux

Next ==
    \/ \E d \in SourceDescs, ol \in OptionLists : Start(d, ol)
    \/ ApplyOpts
    \/ Gate
    \/ Uncompress
    \/ Info
    \/ ReaderAt
    \/ TempFile
    \/ ConvertTarErofs
    \/ OpenWriter
    \/ Truncate
    \/ Copy
    \/ BlobClose
    \/ Commit
    \/ WriterClose
    \/ Cancel

Spec == Init /\ [][Next]_vars

\* -------------------------------------------- two concurrent conversions
\* The variables of the pipeline are the locals of the conversion that takes
\* the next step; parked holds the locals of the other one.  The store and
\* the availability flag are common to both.
CurrentLocals ==
    [pc |-> pc, opt |-> opt, desc |-> desc, opts |-> opts,
     uncompressedDesc |-> uncompressedDesc, labelz |-> labelz, sr |-> sr,
     res |-> res, defers |-> defers, blobData |-> blobData,
     extraopts |-> extraopts, mkfsArgs |-> mkfsArgs, wref |-> wref,
     wdigest |-> wdigest, n |-> n, ret |-> ret, err |-> err, trace |-> trace,
     hist |-> hist]

\* the scheduler runs the other conversion
Switch ==
    /\ parked' = CurrentLocals
    /\ pc' = parked.pc
    /\ opt' = parked.opt
    /\ desc' = parked.desc
    /\ opts' = parked.opts
    /\ uncompressedDesc' = parked.uncompressedDesc
    /\ labelz' = parked.labelz
    /\ sr' = parked.sr
    /\ res' = parked.res
    /\ defers' = parked.defers
    /\ blobData' = parked.blobData
    /\ extraopts' = parked.extraopts
    /\ mkfsArgs' = parked.mkfsArgs
    /\ wref' = parked.wref
    /\ wdigest' = parked.wdigest
    /\ n' = parked.n
    /\ ret' = parked.ret
    /\ err' = parked.err
    /\ trace' = parked.trace
    /\ hist' = parked.hist
    /\ UNCHANGED <<hasMkfs, hasMkfsOnce, blobs, ingests, runs, onceVars, differVars,
                   cmdVars>>

\* the layers and the option lists of the concurrent conversions
ConcDescs == {d \in SourceDescs : IsLayerType(d.MediaType)}
ConcOptionLists == {<<>>, <<WithCompressors("deflate,9")>>}

\* a caller invokes a conversion while another one, of a descriptor with a
\* different digest, may be running
StartConc(d, ol) ==
    /\ pc = "idle"
    /\ parked.pc # "idle" => parked.desc.Digest # d.Digest
    /\ Start(d, ol)

NextConc ==
    \/ \E d \in ConcDescs, ol \in ConcOptionLists : StartConc(d, ol)
    \/ ApplyOpts
    \/ Gate
    \/ Uncompress
    \/ Info
    \/ ReaderAt
    \/ TempFile
    \/ ConvertTarErofs
    \/ OpenWriter
    \/ Truncate
    \/ Copy
    \/ BlobClose
    \/ Commit
    \/ WriterClose
    \/ Switch

SpecConc == Init /\ [][NextConc]_vars

\* ------------------------------------------ hasMkfsErofs, called concurrently
\* sync.Once.Do: the test made under the mutex, whether f is still to run
DoSlowRunsAlways(done) == TRUE

DoSlowRuns(done) == ~done

onceFrame == <<blobs, ingests, runs, locals, parked, differVars, cmdVars>>

\* goroutine c calls hasMkfsErofs()
HCall(c) ==
    /\ hcall[c].pc = "idle"
    /\ hcall[c].calls < MaxCalls
    /\ hcall' = [hcall EXCEPT ![c] = [@ EXCEPT !.pc = "fast", !.calls = @ + 1,
                                               !.ret = Nil, !.saw = "none"]]
    /\ UNCHANGED <<hasMkfs, hasMkfsOnce, onceM, lookups, onceFrame>>

\* Once.Do: if o.done.Load() == 0 { o.doSlow(f) }
HFast(c) ==
    /\ hcall[c].pc = "fast"
    /\ hcall' = [hcall EXCEPT ![c] =
                    IF hasMkfsOnce THEN [@ EXCEPT !.pc = "read", !.saw = "fast"]
                    ELSE [@ EXCEPT !.pc = "lock"]]
    /\ UNCHANGED <<hasMkfs, hasMkfsOnce, onceM, lookups, onceFrame>>

\* doSlow: o.m.Lock()
HLock(c) ==
    /\ hcall[c].pc = "lock"
    /\ onceM = 0
    /\ onceM' = c
    /\ hcall' = [hcall EXCEPT ![c].pc = "slow"]
    /\ UNCHANGED <<hasMkfs, hasMkfsOnce, lookups, onceFrame>>

\* doSlow: if o.done.Load() == 0 { defer o.done.Store(1); f() }
HSlow(c) ==
    /\ hcall[c].pc = "slow"
    /\ hcall' = [hcall EXCEPT ![c] =
                    IF DoSlowRuns(hasMkfsOnce) THEN [@ EXCEPT !.pc = "lookup"]
                    ELSE [@ EXCEPT !.pc = "unlock", !.saw = "slow"]]
    /\ UNCHANGED <<hasMkfs, hasMkfsOnce, onceM, lookups, onceFrame>>

\* _, err := exec.LookPath("mkfs.erofs"); if err != nil { return }
HLookPath(c) ==
    /\ hcall[c].pc = "lookup"
    /\ \E found \in BOOLEAN :
        /\ lookups' = Append(lookups, found)
        /\ hcall' = [hcall EXCEPT ![c].pc = IF found THEN "set" ELSE "store"]
    /\ UNCHANGED <<hasMkfs, hasMkfsOnce, onceM, onceFrame>>

\* hasMkfs = true
HSet(c) ==
    /\ hcall[c].pc = "set"
    /\ hasMkfs' = TRUE
    /\ hcall' = [hcall EXCEPT ![c].pc = "store"]
    /\ UNCHANGED <<hasMkfsOnce, onceM, lookups, onceFrame>>

\* the deferred o.done.Store(1)
HStore(c) ==
    /\ hcall[c].pc = "store"
    /\ hasMkfsOnce' = TRUE
    /\ hcall' = [hcall EXCEPT ![c].pc = "unlock"]
    /\ UNCHANGED <<hasMkfs, onceM, lookups, onceFrame>>

\* the deferred o.m.Unlock()
HUnlock(c) ==
    /\ hcall[c].pc = "unlock"
    /\ onceM' = 0
    /\ hcall' = [hcall EXCEPT ![c].pc = "read"]
    /\ UNCHANGED <<hasMkfs, hasMkfsOnce, lookups, onceFrame>>

\* return hasMkfs
HReturn(c) ==
    /\ hcall[c].pc = "read"
    /\ hcall' = [hcall EXCEPT ![c] = [@ EXCEPT !.pc = "idle", !.ret = Ptr(hasMkfs)]]
    /\ UNCHANGED <<hasMkfs, hasMkfsOnce, onceM, lookups, onceFrame>>

NextOnce ==
    \/ \E c \in Callers : HCall(c)
    \/ \E c \in Callers : HFast(c)
    \/ \E c \in Callers : HLock(c)
    \/ \E c \in Callers : HSlow(c)
    \/ \E c \in Callers : HLookPath(c)
    \/ \E c \in Callers : HSet(c)
    \/ \E c \in Callers : HStore(c)
    \/ \E c \in Callers : HUnlock(c)
    \/ \E c \in Callers : HReturn(c)

SpecOnce == Init /\ [][NextOnce]_vars

\* ------------------------------------- diffService, called concurrently
\* the steps of getDiffer after containerd.New succeeded, in the order they
\* take effect: a.differ is assigned (an interface value, two words), the
\* result a.differ is evaluated, then the deferred calls run, the store of
\* loaded (deferred last) before the unlock
ConnectedStepsStoreFirst == <<"store", "assign1", "assign2", "result", "unlock">>

ConnectedSteps == <<"assign1", "assign2", "result", "store", "unlock">>

\* the step that follows step st
AfterStep(st) ==
    LET i == CHOOSE k \in 1..Len(ConnectedSteps) : ConnectedSteps[k] = st
    IN ConnectedSteps[i + 1]

TheDiffer == Ptr("erofs differ")
HalfDiffer == Ptr("half assigned")

NoPanic == \A c \in Callers : dcall[c].pc # "panicked"

differFrame == <<conv, parked, onceVars, cmdVars>>

\* goroutine c serves an Apply or a Compare request: differ, err := s.getDiffer()
DCall(c) ==
    /\ NoPanic
    /\ dcall[c].pc = "idle"
    /\ dcall[c].calls < MaxCalls
    /\ dcall' = [dcall EXCEPT ![c] = [IdleCaller EXCEPT !.pc = "fast",
                                                        !.calls = dcall[c].calls + 1]]
    /\ UNCHANGED <<svc, differFrame>>

\* if atomic.LoadUint32(&a.loaded) == 1
DFast(c) ==
    /\ NoPanic
    /\ dcall[c].pc = "fast"
    /\ dcall' = [dcall EXCEPT ![c] =
                    IF svc.loaded = 1 THEN [@ EXCEPT !.pc = "fastread", !.saw = "fast"]
                    ELSE [@ EXCEPT !.pc = "lock"]]
    /\ UNCHANGED <<svc, differFrame>>

\* return a.differ, nil
DFastRead(c) ==
    /\ NoPanic
    /\ dcall[c].pc = "fastread"
    /\ dcall' = [dcall EXCEPT ![c] = [@ EXCEPT !.pc = "use", !.ret = svc.differ,
                                              !.err = ErrNil]]
    /\ UNCHANGED <<svc, differFrame>>

\* a.loadM.Lock(); defer a.loadM.Unlock()
DLock(c) ==
    /\ NoPanic
    /\ dcall[c].pc = "lock"
    /\ svc.m = 0
    /\ svc' = [svc EXCEPT !.m = c]
    /\ dcall' = [dcall EXCEPT ![c].pc = "slow"]
    /\ UNCHANGED differFrame

\* if a.loaded == 1 { return a.differ, nil }
DSlow(c) ==
    /\ NoPanic
    /\ dcall[c].pc = "slow"
    /\ dcall' = [dcall EXCEPT ![c] =
                    IF svc.loaded = 1
                    THEN [@ EXCEPT !.pc = "unlock", !.saw = "slow",
                                   !.ret = svc.differ, !.err = ErrNil]
                    ELSE [@ EXCEPT !.pc = "connect"]]
    /\ UNCHANGED <<svc, differFrame>>

\* client, err := containerd.New(a.address); if err != nil { return nil, nil }
DConnect(c) ==
    /\ NoPanic
    /\ dcall[c].pc = "connect"
    /\ svc' = [svc EXCEPT !.connects = @ + 1]
    /\ \E ok \in BOOLEAN :
        dcall' = [dcall EXCEPT ![c] =
                    IF ok THEN [@ EXCEPT !.pc = ConnectedSteps[1]]
                    ELSE [@ EXCEPT !.pc = "unlock", !.ret = Nil, !.err = ErrNil]]
    /\ UNCHANGED differFrame

\* a.differ = erofsdiff.NewErofsDiffer(...): the first word is written
DAssignHalf(c) ==
    /\ NoPanic
    /\ dcall[c].pc = "assign1"
    /\ svc' = [svc EXCEPT !.differ = HalfDiffer]
    /\ dcall' = [dcall EXCEPT ![c].pc = AfterStep("assign1")]
    /\ UNCHANGED differFrame

\* the assignment of a.differ is complete
DAssign(c) ==
    /\ NoPanic
    /\ dcall[c].pc = "assign2"
    /\ svc' = [svc EXCEPT !.differ = TheDiffer, !.built = @ + 1]
    /\ dcall' = [dcall EXCEPT ![c].pc = AfterStep("assign2")]
    /\ UNCHANGED differFrame

\* return a.differ, nil: the results are evaluated
DResult(c) ==
    /\ NoPanic
    /\ dcall[c].pc = "result"
    /\ dcall' = [dcall EXCEPT ![c] = [@ EXCEPT !.pc = AfterStep("result"),
                                              !.ret = svc.differ, !.err = ErrNil]]
    /\ UNCHANGED <<svc, differFrame>>

\* the deferred atomic.StoreUint32(&a.loaded, 1)
DStore(c) ==
    /\ NoPanic
    /\ dcall[c].pc = "store"
    /\ svc' = [svc EXCEPT !.loaded = 1]
    /\ dcall' = [dcall EXCEPT ![c].pc = AfterStep("store")]
    /\ UNCHANGED differFrame

\* the deferred a.loadM.Unlock()
DUnlock(c) ==
    /\ NoPanic
    /\ dcall[c].pc = "unlock"
    /\ svc' = [svc EXCEPT !.m = 0]
    /\ dcall' = [dcall EXCEPT ![c].pc = "use"]
    /\ UNCHANGED differFrame

\* Apply / Compare: if err != nil { return d, err }; return differ.Apply(...)
\* (differ.Compare(...)): a method call on a nil interface panics
DUse(c) ==
    /\ NoPanic
    /\ dcall[c].pc = "use"
    /\ dcall' = [dcall EXCEPT ![c] =
                    IF dcall[c].err # ErrNil THEN [@ EXCEPT !.pc = "idle", !.out = "error"]
                    ELSE IF dcall[c].ret = Nil THEN [@ EXCEPT !.pc = "panicked", !.out = "panic"]
                    ELSE [@ EXCEPT !.pc = "idle", !.out = "called"]]
    /\ UNCHANGED <<svc, differFrame>>

NextDiffer ==
    \/ \E c \in Callers : DCall(c)
    \/ \E c \in Callers : DFast(c)
    \/ \E c \in Callers : DFastRead(c)
    \/ \E c \in Callers : DLock(c)
    \/ \E c \in Callers : DSlow(c)
    \/ \E c \in Callers : DConnect(c)
    \/ \E c \in Callers : DAssignHalf(c)
    \/ \E c \in Callers : DAssign(c)
    \/ \E c \in Callers : DResult(c)
    \/ \E c \in Callers : DStore(c)
    \/ \E c \in Callers : DUnlock(c)
    \/ \E c \in Callers : DUse(c)

SpecDiffer == Init /\ [][NextDiffer]_vars

\* ------------------------------------------------ the convert command
\* what a step of the convert command leaves alone
cmdFrame == <<conv, parked, onceVars, differVars>>

RECURSIVE Reverse(_)
Reverse(q) == IF q = <<>> THEN <<>> ELSE Append(Reverse(Tail(q)), Head(q))

\* return e: the deferred calls run last-registered first
CmdReturn(c, e) ==
    [c EXCEPT !.pc = "returned", !.err = e,
              !.deferred = Reverse(c.defers), !.defers = <<>>]

\* the Action is called with the flags and arguments of command line cl
CmdStart(cl) ==
    /\ cmd.pc = "idle"
    /\ cmd' = [NoCommand EXCEPT !.pc = "args", !.flags = cl]
    /\ UNCHANGED cmdFrame

\* if srcRef == "" || targetRef == "" { return errors.New(...) }
CmdArgs ==
    /\ cmd.pc = "args"
    /\ cmd' = IF cmd.flags.srcRef = "" \/ cmd.flags.targetRef = ""
              THEN CmdReturn(cmd, ErrNoRefs)
              ELSE [cmd EXCEPT !.pc = "platform"]
    /\ UNCHANGED cmdFrame

\* the platform matcher and WithPlatform
PlatformMC(f) ==
    IF f.allPlatforms THEN [kind |-> "All", ps |-> <<>>]
    ELSE IF Len(f.platform) > 0 THEN [kind |-> "Ordered", ps |-> f.platform]
    ELSE [kind |-> "DefaultStrict", ps |-> <<>>]

PlatformsValid(f) ==
    f.allPlatforms \/ \A i \in DOMAIN f.platform : ~ParseFails(f.platform[i])

CmdPlatform ==
    /\ cmd.pc = "platform"
    /\ cmd' = IF ~PlatformsValid(cmd.flags)
              THEN CmdReturn(cmd, ErrInvalidPlatform)
              ELSE [cmd EXCEPT !.pc = "erofs",
                               !.convertOpts = Append(@, WithPlatform(PlatformMC(cmd.flags)))]
    /\ UNCHANGED cmdFrame

\* if context.Bool("erofs") { ... }
ErofsBranchNoConflict(c) ==
    IF c.flags.erofs
    THEN [c EXCEPT !.layerConvertFunc =
                       Ptr(ErofsLayerConvertFunc(
                           <<WithCompressors(c.flags.erofsCompressors),
                             WithExtraMkfsOption(c.flags.erofsMkfsOptions)>>)),
                   !.warned = ~c.flags.oci,
                   !.pc = "uncompress"]
    ELSE [c EXCEPT !.pc = "uncompress"]

ErofsBranch(c) ==
    IF c.flags.erofs
    THEN LET d == [c EXCEPT !.layerConvertFunc =
                                Ptr(ErofsLayerConvertFunc(
                                    <<WithCompressors(c.flags.erofsCompressors),
                                      WithExtraMkfsOption(c.flags.erofsMkfsOptions)>>)),
                            !.warned = ~c.flags.oci]
         IN IF c.flags.uncompress
            THEN CmdReturn(d, ErrConflict)
            ELSE [d EXCEPT !.pc = "uncompress"]
    ELSE [c EXCEPT !.pc = "uncompress"]

CmdErofs ==
    /\ cmd.pc = "erofs"
    /\ cmd' = ErofsBranch(cmd)
    /\ UNCHANGED cmdFrame

\* if context.Bool("uncompress") { layerConvertFunc = uncompress.LayerConvertFunc }
CmdUncompress ==
    /\ cmd.pc = "uncompress"
    /\ cmd' = [cmd EXCEPT !.pc = "oci",
                          !.layerConvertFunc =
                              IF cmd.flags.uncompress
                              THEN Ptr(UncompressLayerConvertFunc) ELSE @]
    /\ UNCHANGED cmdFrame

\* if context.Bool("oci") { convertOpts = append(convertOpts, WithDockerToOCI(true)) }
CmdOci ==
    /\ cmd.pc = "oci"
    /\ cmd' = [cmd EXCEPT !.pc = "layeropt",
                          !.convertOpts =
                              IF cmd.flags.oci
                              THEN Append(@, WithDockerToOCI(TRUE)) ELSE @]
    /\ UNCHANGED cmdFrame

\* if layerConvertFunc != nil { convertOpts = append(convertOpts, WithLayerConvertFunc(...)) }
CmdLayerOpt ==
    /\ cmd.pc = "layeropt"
    /\ cmd' = [cmd EXCEPT !.pc = "client",
                          !.convertOpts =
                              IF cmd.layerConvertFunc # Nil
                              THEN Append(@, WithLayerConvertFunc(cmd.layerConvertFunc[1]))
                              ELSE @]
    /\ UNCHANGED cmdFrame

\* client, ctx, cancel, err := commands.NewClient(context); defer cancel()
CmdNewClient ==
    /\ cmd.pc = "client"
    /\ \E e \in {ErrNil, "client error"} :
          LET c == [cmd EXCEPT !.clients = @ + 1]
          IN cmd' = IF e # ErrNil THEN CmdReturn(c, e)
                    ELSE [c EXCEPT !.pc = "lease", !.defers = Append(@, "cancel")]
    /\ UNCHANGED cmdFrame

\* ctx, done, err := client.WithLease(ctx); defer done(ctx)
CmdWithLease ==
    /\ cmd.pc = "lease"
    /\ \E e \in {ErrNil, "lease error"} :
          LET c == [cmd EXCEPT !.leases = @ + 1]
          IN cmd' = IF e # ErrNil THEN CmdReturn(c, e)
                    ELSE [c EXCEPT !.pc = "convert", !.defers = Append(@, "done")]
    /\ UNCHANGED cmdFrame

\* the goroutine of the interrupt handler: case s := <-sigCh: cancel()
CmdSignal ==
    /\ cmd.pc = "convert"
    /\ ~cmd.cancelled
    /\ cmd' = [cmd EXCEPT !.cancelled = TRUE]
    /\ UNCHANGED cmdFrame

\* newImg, err := converter.Convert(ctx, client, targetRef, srcRef, convertOpts...)
\* finalize is never assigned: the digest is printed and nil returned
CmdConvert ==
    /\ cmd.pc = "convert"
    /\ \E e \in {ErrNil, "convert error"} :
          LET c == [cmd EXCEPT !.converts = Append(@, cmd.convertOpts)]
          IN cmd' = IF e # ErrNil THEN CmdReturn(c, e)
                    ELSE CmdReturn([c EXCEPT !.printed = TRUE], ErrNil)
    /\ UNCHANGED cmdFrame

NextCmd ==
    \/ \E cl \in CommandLines : CmdStart(cl)
    \/ CmdArgs
    \/ CmdPlatform
    \/ CmdErofs
    \/ CmdUncompress
    \/ CmdOci
    \/ CmdLayerOpt
    \/ CmdNewClient
    \/ CmdWithLease
    \/ CmdSignal
    \/ CmdConvert

SpecCmd == Init /\ [][NextCmd]_vars

\* ------------------------------------------------------------- properties
Performed(op) == op \in Range(trace)

\* the labels stored on the source blob (none: the empty set)
SourceLabels(d) ==
    IF blobs[d.Digest].Labels = Nil THEN {} ELSE blobs[d.Digest].Labels[1]

\* the tar stream of a source layer, decompressed when its type says so
SourceTar(d) ==
    IF d.MediaType = MediaTypeLayerGzip THEN Decompress(BlobBytes(d.Digest))
    ELSE BlobBytes(d.Digest)

\* C1: when hasMkfsErofs reports the builder unavailable, the conversion
\* returns (nil, not implemented) for every descriptor, layer or not, and no
\* collaborator (transform, Info, ReaderAt, OpenWriter, Commit) was called.
C1_CapabilityGating ==
    hist.reported = "unavailable" =>
        /\ pc = "done"
        /\ ret = Nil
        /\ err = ErrNotImplemented
        /\ trace = <<>>

C1_Witness ==
    /\ pc = "done"
    /\ hist.reported = "unavailable"
    /\ ~IsLayerType(desc.MediaType)
    /\ err = ErrNotImplemented

\* C2 as stated: every conversion of a descriptor that is not a layer type
\* returns (nil, nil) and calls no collaborator.
C2_Original ==
    (pc = "done" /\ ~IsLayerType(desc.MediaType)) =>
        /\ ret = Nil
        /\ err = ErrNil
        /\ trace = <<>>

\* C2 amended: a conversion of a descriptor that is not a layer type never
\* calls a collaborator and never returns a descriptor; it returns
\* (nil, nil) when the options applied and the builder was reported
\* available, the option's error or not-implemented otherwise.
C2_PassThrough ==
    (pc = "done" /\ ~IsLayerType(desc.MediaType)) =>
        /\ ret = Nil
        /\ trace = <<>>
        /\ (hist.reported = "available" => err = ErrNil)
        /\ (hist.reported = "unavailable" => err = ErrNotImplemented)
        /\ (hist.reported = "none" => err = "option error")

C2_Witness ==
    /\ pc = "done"
    /\ ~IsLayerType(desc.MediaType)
    /\ hist.reported = "available"
    /\ ret = Nil
    /\ err = ErrNil

\* C3: in every successful conversion the labels passed to Commit are the
\* labels stored on the source blob, with the uncompressed-digest label set
\* to the digest of the committed EROFS bytes (exactly that one label when
\* the source has none).
C3_LabelPreservation ==
    (pc = "done" /\ err = ErrNil /\ hist.commit # Nil) =>
        hist.commit[1].labels =
            {p \in SourceLabels(desc) : p[1] # LabelUncompressed}
            \cup {<<LabelUncompressed, Digest(hist.commit[1].bytes)>>}

\* the volume-identifier flag: -U and the configured or the default identifier
VolumeFlag(os) == <<"-U", IF os.uuid = "" THEN DefaultUUID ELSE os.uuid>>

\* C4: the extra arguments handed to mkfs.erofs are the volume-identifier
\* flag, then -z <compressor> -C 65536 iff a compressor is set, then the
\* extra-flags string iff it is non-empty.
C4_FlagOrdering ==
    mkfsArgs # <<>> =>
        SubSeq(mkfsArgs, 4, Len(mkfsArgs) - 1) =
            VolumeFlag(opts)
            \o (IF opts.compressors = "" THEN <<>>
                ELSE <<"-z", opts.compressors, "-C", "65536">>)
            \o (IF opts.extraMkfsOpts = "" THEN <<>> ELSE <<opts.extraMkfsOpts>>)

\* C5: the extra arguments always begin with -U followed by the configured
\* identifier, or by the default one when none is configured.
C5_VolumeFlagFirst ==
    mkfsArgs # <<>> =>
        /\ Len(extraopts) >= 2
        /\ SubSeq(extraopts, 1, 2) = VolumeFlag(opts)

\* C6: a conversion opens the reference derived from the source digest,
\* has reset it to offset zero when the copy starts whatever an earlier
\* attempt left under it, commits exactly the bytes of its own staging
\* file, and when it succeeds returns the descriptor of an uninterrupted
\* single conversion (already-exists counting as success).
C6_Reconversion ==
    /\ res.wOpen => wref = ConvertRef(desc.Digest)
    /\ pc = "copy" => ingests[wref] = Ptr(<<>>)
    /\ hist.commit # Nil =>
          /\ hist.commit[1].bytes = blobData
          /\ hist.commit[1].size = Len(blobData)
    /\ (pc = "done" /\ err = ErrNil /\ ret # Nil) =>
          LET image == MkfsOutput(SourceTar(desc), extraopts)
          IN /\ ret[1] = [MediaType |-> MediaTypeErofs, Digest |-> Digest(image),
                          Size |-> Len(image), Annotations |-> desc.Annotations]
             /\ Digest(image) \in DOMAIN blobs
             /\ ingests[wref] = Nil

C6_Witness ==
    /\ runs >= 2
    /\ pc = "done"
    /\ err = ErrNil
    /\ ret # Nil
    /\ hist.resumed # Nil
    /\ hist.resumed[1] # <<>>

\* C7: when the transform returns a descriptor with the digest of its input,
\* or none, the conversion ends with the same-blob error right there: no
\* label lookup, no builder, no store write.
C7_SameDigestDetection ==
    hist.transform \in {"same", "nil"} =>
        /\ pc = "done"
        /\ ret = Nil
        /\ err = ErrSameBlob
        /\ trace = <<"Uncompress">>

\* C8: for a layer whose media type is already uncompressed the transform
\* is never called, and the reader and the builder work on the input
\* descriptor itself (same digest, same size).
C8_DecompressionSkip ==
    (pc # "idle" /\ IsLayerType(desc.MediaType) /\ IsUncompressedType(desc.MediaType)) =>
        /\ ~Performed("Uncompress")
        /\ hist.transform = "none"
        /\ uncompressedDesc \in {Nil, Ptr(desc)}
        /\ hist.readDesc \in {Nil, Ptr(desc)}
        /\ Performed("ReaderAt") /\ hist.readDesc # Nil => sr = BlobBytes(desc.Digest)
        /\ mkfsArgs # <<>> /\ blobData # <<>> =>
              blobData = MkfsOutput(BlobBytes(desc.Digest), extraopts)

C8_Witness ==
    /\ IsLayerType(desc.MediaType)
    /\ IsUncompressedType(desc.MediaType)
    /\ hist.readDesc = Ptr(desc)
    /\ Performed("Mkfs")
    /\ blobData # <<>>

\* C9: when a step fails (Commit with already-exists does not count) the
\* conversion returns that error with a nil descriptor and runs no later
\* step.
C9_ErrorAborts ==
    LET failed == SelectSeq(hist.errs, LAMBDA e : e # ErrAlreadyExists)
    IN failed # <<>> =>
          /\ pc = "done"
          /\ ret = Nil
          /\ err = Head(failed)
          /\ Len(failed) = 1

\* C10 as stated: after an already-exists Commit the conversion returns a
\* descriptor with the writer's digest and the byte count and a nil error;
\* after any other Commit error it returns that error and no descriptor.
C10_Original ==
    pc = "done" =>
        /\ hist.commitErr = ErrAlreadyExists =>
              /\ err = ErrNil
              /\ ret # Nil
              /\ ret[1].Digest = Digest(hist.commit[1].bytes)
              /\ ret[1].Size = hist.commit[1].size
        /\ CommitFatal(hist.commitErr) => (ret = Nil /\ err = hist.commitErr)

\* C10 amended: as stated, provided the Close that follows an
\* already-exists Commit succeeds; when that Close fails the conversion
\* returns the Close error and no descriptor.
C10_AlreadyExistsIsSuccess ==
    pc = "done" =>
        /\ (hist.commitErr = ErrAlreadyExists /\ "close error" \notin Range(hist.errs)) =>
              /\ err = ErrNil
              /\ ret # Nil
              /\ ret[1].Digest = Digest(hist.commit[1].bytes)
              /\ ret[1].Size = hist.commit[1].size
        /\ (hist.commitErr = ErrAlreadyExists /\ "close error" \in Range(hist.errs)) =>
              (ret = Nil /\ err = "close error")
        /\ CommitFatal(hist.commitErr) => (ret = Nil /\ err = hist.commitErr)

C10_Witness ==
    /\ pc = "done"
    /\ hist.commitErr = ErrAlreadyExists
    /\ err = ErrNil
    /\ ret # Nil
    /\ ret[1].Size = Len(blobData)

\* op a was performed before op b
Before(a, b) ==
    \E i, j \in 1..Len(trace) : i < j /\ trace[i] = a /\ trace[j] = b

Times(op) == Cardinality({i \in 1..Len(trace) : trace[i] = op})

\* C11: when a conversion has returned (success, error or cancelled ctx)
\* its staging file is removed and closed, its writer and its reader are
\* closed, and no deferred call is left: nothing it created outlives it.
C11_Cleanup ==
    pc \in {"idle", "done"} =>
        /\ ~res.blobExists
        /\ ~res.blobOpen
        /\ ~res.wOpen
        /\ res.ra # "open"
        /\ defers = <<>>

C11_Witness ==
    /\ pc = "done"
    /\ hist.cancelled
    /\ err # ErrNil
    /\ Performed("TempFile")
    /\ Performed("OpenWriter")
    /\ wref # <<>>
    /\ ~res.blobExists
    /\ ~res.wOpen

\* C12: the writer is opened only after mkfs.erofs succeeded; bytes are
\* copied only after a successful Truncate, into an empty ingest; Commit
\* comes only after the whole staging file was copied, its size argument
\* is the number of bytes copied, and it is called at most once.
C12_StepOrder ==
    /\ Performed("OpenWriter") =>
          /\ Before("Mkfs", "OpenWriter")
          /\ hist.mkfsFailure = Nil
          /\ blobData = MkfsOutput(sr, extraopts)
    /\ Performed("Copy") =>
          /\ Before("Truncate", "Copy")
          /\ "truncate error" \notin Range(hist.errs)
    /\ pc = "copy" => ingests[wref] = Ptr(<<>>)
    /\ Performed("Commit") =>
          /\ Before("Copy", "Commit")
          /\ "copy error" \notin Range(hist.errs)
          /\ n = Len(blobData)
          /\ hist.commit[1].size = n
          /\ hist.commit[1].bytes = blobData
    /\ Times("Commit") <= 1

C12_Witness ==
    /\ pc = "done"
    /\ err = ErrNil
    /\ hist.commitErr = ErrNil
    /\ trace = <<"Info", "ReaderAt", "TempFile", "Mkfs", "OpenWriter",
                 "Truncate", "Copy", "BlobClose", "Commit", "Close">>

\* C13: the descriptor a conversion returns is the original one with the
\* media type application/vnd.erofs, the digest the writer computed over
\* the committed bytes and their number as size, every other field as in
\* the original; the original descriptor is never modified.
C13_DescriptorRewrite ==
    /\ [](pc = "done" /\ ret # Nil =>
            /\ err = ErrNil
            /\ hist.commit # Nil
            /\ ret[1].MediaType = "application/vnd.erofs"
            /\ ret[1].Digest = Digest(hist.commit[1].bytes)
            /\ ret[1].Size = Len(hist.commit[1].bytes)
            /\ ret[1].Annotations = desc.Annotations
            /\ DOMAIN ret[1] = DOMAIN desc)
    /\ [][pc \notin {"idle", "done"} => desc' = desc]_vars

C13_Witness ==
    /\ pc = "done"
    /\ ret # Nil
    /\ ret[1].MediaType = MediaTypeErofs
    /\ ret[1].Digest # desc.Digest
    /\ desc.MediaType = MediaTypeLayerGzip

\* C15: mkfs.erofs is started with --tar=f, --aufs, --quiet, then the
\* extra flags in their order, then the destination path as last argument;
\* the error of a failed run carries these arguments and the output.
C15_BuilderArguments ==
    /\ mkfsArgs # <<>> =>
          /\ Len(mkfsArgs) = Len(extraopts) + 4
          /\ SubSeq(mkfsArgs, 1, 3) = <<"--tar=f", "--aufs", "--quiet">>
          /\ SubSeq(mkfsArgs, 4, Len(mkfsArgs) - 1) = extraopts
          /\ mkfsArgs[Len(mkfsArgs)] = LayerPath
    /\ "mkfs.erofs failed" \in Range(hist.errs) =>
          /\ hist.mkfsFailure # Nil
          /\ Tail(hist.mkfsFailure[1].cmdArgs) = mkfsArgs
          /\ hist.mkfsFailure[1].out \in MkfsDiagnostics

C15_Witness ==
    /\ pc = "done"
    /\ err = "mkfs.erofs failed"
    /\ hist.mkfsFailure # Nil
    /\ hist.mkfsFailure[1].out # ""
    /\ Len(mkfsArgs) = 10

\* C16: mkfs.erofs is started at most once in a conversion; when it fails
\* the conversion returns its error and no descriptor, opens no writer and
\* commits nothing.
C16_NoRetry ==
    /\ Times("Mkfs") <= 1
    /\ "mkfs.erofs failed" \in Range(hist.errs) =>
          /\ pc = "done"
          /\ ret = Nil
          /\ err = "mkfs.erofs failed"
          /\ trace[Len(trace)] = "Mkfs"
          /\ ~Performed("OpenWriter")
          /\ ~Performed("Commit")
          /\ wref = <<>>
          /\ hist.resumed = Nil
          /\ hist.commit = Nil

C16_Witness ==
    /\ pc = "done"
    /\ err = "mkfs.erofs failed"
    /\ ~hist.cancelled
    /\ Times("Mkfs") = 1
    /\ wref = <<>>

\* C18: when the transform produced a new blob, the reader is opened on
\* that blob and delivers exactly the bytes of the decompressed descriptor
\* (its size many), the builder's image is made of them and not of the
\* compressed blob, and the writer reference is still the one of the
\* original digest.
C18_ReadsDecompressed ==
    hist.transform = "new" =>
        LET plain == Decompress(BlobBytes(desc.Digest))
        IN /\ Digest(plain) # desc.Digest
           /\ hist.readDesc # Nil =>
                 /\ hist.readDesc[1].Digest = Digest(plain)
                 /\ hist.readDesc[1].Size = Len(plain)
                 /\ sr = plain
           /\ blobData # <<>> => blobData = MkfsOutput(plain, extraopts)
           /\ wref # <<>> => wref = ConvertRef(desc.Digest)

C18_Witness ==
    /\ hist.transform = "new"
    /\ hist.readDesc # Nil
    /\ blobData # <<>>
    /\ res.wOpen
    /\ wref = ConvertRef(desc.Digest)

\* C14: under every interleaving of concurrent callers exec.LookPath runs
\* at most once, a caller returns only after that lookup has completed, and
\* every call returns its result; the flag keeps that value for good.
C14_LookupOnce ==
    /\ Len(lookups) <= 1
    /\ hasMkfsOnce => (Len(lookups) = 1 /\ hasMkfs = lookups[1])
    /\ \A c \in Callers :
          /\ hcall[c].pc = "read" => hasMkfsOnce
          /\ hcall[c].ret # Nil =>
                /\ hasMkfsOnce
                /\ Len(lookups) = 1
                /\ hcall[c].ret = Ptr(lookups[1])

C14_Witness ==
    /\ Len(lookups) = 1
    /\ \A c \in Callers : hcall[c].ret = Ptr(lookups[1])
    /\ \E c \in Callers : hcall[c].saw = "slow"
    /\ \E c \in Callers : hcall[c].calls = MaxCalls /\ hcall[c].saw = "fast"

\* C19: getDiffer never returns a nil differ with a nil error: whenever
\* Apply or Compare goes on to call the differ it is not nil, and a failed
\* connection makes the call return an error.
C19_NeverNilDiffer ==
    \A c \in Callers :
        /\ dcall[c].pc = "use" => ~(dcall[c].ret = Nil /\ dcall[c].err = ErrNil)
        /\ dcall[c].out # "panic"

\* C20: under every interleaving the differ is constructed at most once; a
\* caller that saw loaded = 1, on the fast path or under the lock, gets the
\* fully assigned differ; and once loaded = 1 it stays 1, the differ is not
\* assigned again and no connection is made again.
C20_LoadedOnce ==
    /\ [](/\ svc.built <= 1
          /\ svc.loaded = 1 => svc.differ = TheDiffer
          /\ \A c \in Callers :
                (dcall[c].saw # "none" /\ dcall[c].pc \in {"unlock", "use", "idle"}) =>
                    (dcall[c].ret = TheDiffer /\ dcall[c].err = ErrNil))
    /\ [][svc.loaded = 1 =>
            (svc'.loaded = 1 /\ svc'.differ = svc.differ
             /\ svc'.connects = svc.connects /\ svc'.built = svc.built)]_vars

C20_Witness ==
    /\ svc.loaded = 1
    /\ svc.built = 1
    /\ svc.connects = 1
    /\ \E c \in Callers : dcall[c].saw = "fast" /\ dcall[c].out = "called"
    /\ \E c \in Callers : dcall[c].saw = "slow" /\ dcall[c].ret = TheDiffer

\* what a conversion with locals l does when it runs alone: Commit gets the
\* image of the source's tar stream and the source's labels (none when the
\* lookup failed) with the uncompressed-digest label set, a successful
\* conversion returns the image's descriptor, and a failed one returns the
\* error of its own failed step
AsWhenAlone(l) ==
    LET image == MkfsOutput(SourceTar(l.desc), l.extraopts)
        labels == IF "info error" \in Range(l.hist.errs) THEN {}
                  ELSE SourceLabels(l.desc)
    IN /\ l.hist.commit # Nil =>
             /\ l.hist.commit[1].bytes = image
             /\ l.hist.commit[1].size = Len(image)
             /\ l.hist.commit[1].labels =
                   {q \in labels : q[1] # LabelUncompressed}
                   \cup {<<LabelUncompressed, Digest(image)>>}
       /\ l.hist.commitErr \in {ErrNil, ErrAlreadyExists, "commit error"}
       /\ (l.pc = "done" /\ l.ret # Nil) =>
             /\ l.err = ErrNil
             /\ l.ret[1] = [MediaType |-> MediaTypeErofs, Digest |-> Digest(image),
                            Size |-> Len(image), Annotations |-> l.desc.Annotations]
             /\ Digest(image) \in DOMAIN blobs

\* C17: two concurrent conversions of descriptors with different digests
\* never have a writer under the same reference, and under every
\* interleaving each commits the bytes and labels and returns the
\* descriptor it commits and returns when it runs alone.
C17_ConcurrentConversions ==
    /\ (wref # <<>> /\ parked.wref # <<>>) => wref # parked.wref
    /\ AsWhenAlone(CurrentLocals)
    /\ AsWhenAlone(parked)

C17_Witness ==
    /\ pc = "wclose"
    /\ parked.pc = "wclose"
    /\ wref # parked.wref
    /\ hist.commitErr = ErrAlreadyExists
    /\ parked.hist.commitErr = ErrNil

\* the WithLayerConvertFunc options among the options handed to Convert
LayerFuncs(copts) == SelectSeq(copts, LAMBDA o : o.kind = "WithLayerConvertFunc")

\* the layer conversion options the flags f call for
ExpectedLayerFuncs(f) ==
    IF f.erofs /\ ~f.uncompress
    THEN <<WithLayerConvertFunc(ErofsLayerConvertFunc(
               <<WithCompressors(f.erofsCompressors),
                 WithExtraMkfsOption(f.erofsMkfsOptions)>>))>>
    ELSE IF f.uncompress /\ ~f.erofs
    THEN <<WithLayerConvertFunc(UncompressLayerConvertFunc)>>
    ELSE <<>>

\* every call of converter.Convert was handed the function the flags call for
HandedAsFlagged ==
    \A i \in DOMAIN cmd.converts :
        /\ ~(cmd.flags.erofs /\ cmd.flags.uncompress)
        /\ LayerFuncs(cmd.converts[i]) = ExpectedLayerFuncs(cmd.flags)

BothFlags == cmd.flags.erofs /\ cmd.flags.uncompress

\* C21 as stated: the function handed to converter.Convert is the EROFS one
\* exactly when --erofs is set without --uncompress, the uncompress one
\* exactly when only --uncompress is set and none when neither is set; with
\* both flags set the Action returns the conflict error, and no client is
\* created and Convert is not called.
C21_Original ==
    /\ HandedAsFlagged
    /\ BothFlags =>
          /\ cmd.clients = 0
          /\ cmd.converts = <<>>
          /\ cmd.pc = "returned" => cmd.err = ErrConflict

\* C21 amended: the same, except that with both flags set the Action
\* returns the conflict error only when both image references are given
\* and the platforms parse; otherwise it returns the error of the missing
\* references or of the invalid platform, which are tested first. In every
\* case with both flags set no client is created and Convert is not
\* called, and an Action that returns no error has called Convert once.
C21_LayerFuncSelection ==
    /\ HandedAsFlagged
    /\ (cmd.pc = "returned" /\ cmd.err = ErrNil) => Len(cmd.converts) = 1
    /\ BothFlags =>
          /\ cmd.clients = 0
          /\ cmd.converts = <<>>
          /\ cmd.pc = "returned" =>
                cmd.err = IF cmd.flags.srcRef = "" \/ cmd.flags.targetRef = ""
                          THEN ErrNoRefs
                          ELSE IF ~PlatformsValid(cmd.flags)
                          THEN ErrInvalidPlatform
                          ELSE ErrConflict

C21_Witness ==
    /\ BothFlags
    /\ cmd.flags.srcRef # ""
    /\ cmd.flags.targetRef # ""
    /\ PlatformsValid(cmd.flags)
    /\ cmd.pc = "returned"
    /\ cmd.err = ErrConflict
    /\ cmd.layerConvertFunc # Nil
    /\ cmd.clients = 0
    /\ cmd.converts = <<>>

====
